---- MODULE Spec2Model ----
(***************************************************************************)
(* Model of src/src/game.py: class Game of the mathematico card game.      *)
(* One Game object, its deck (available_cards), its move counter           *)
(* (moves_played) and its roster (players), driven by the public           *)
(* operations add_player, take_next_card, finished, __str__ and start.     *)
(* start is a loop, modelled step by step (one step per loop iteration     *)
(* head, one per player.move call); while it runs no other public          *)
(* operation can be called (the program is single-threaded).               *)
(*                                                                         *)
(* player.py, board.py and eval.py are not part of the available source:   *)
(* Board.SIZE, Player.move, Player.get_board and evaluate are modelled     *)
(* from the specification (section 6 and the scenarios of section 8).      *)
(***************************************************************************)
EXTENDS Integers, Sequences, FiniteSets, TLC

(* ------------------------------ bounds --------------------------------- *)

\* Board.SIZE ranges over 0..MaxBoardSize (a board that the deck can fill)
\* and the smallest side whose capacity exceeds the deck (see BoardSides).
MaxBoardSize == 5
\* The roster holds at most MaxPlayers entries.
MaxPlayers == 2
\* Number of different shuffles of the deck that are explored.
NumShuffles == 2

(* ------------------------- program constants --------------------------- *)

\* range(1, 14): the ranks 1..13
Ranks == 13
\* range(4): copies of each rank
Copies == 4

\* The smallest board side whose capacity exceeds the deck length.
DeckSide ==
    CHOOSE s \in 1..(Ranks * Copies) :
        s * s > Ranks * Copies /\ (s - 1) * (s - 1) <= Ranks * Copies

\* The values of Board.SIZE that are explored.
BoardSides == (0..MaxBoardSize) \cup {DeckSide}

\* The player objects a caller can register (the same object may be
\* registered more than once).
PlayerObjects == {"p1", "p2"}

VARIABLES
    available_cards,  \* self.available_cards: the shuffled deck
    moves_played,     \* self.moves_played
    players,          \* self.players: the roster, a sequence of player objects
    SIZE,             \* Board.SIZE, the side length of the board
    boards,           \* the private board of every player object
    pc,               \* "idle", or the position inside start: "loop", "moves"
    verbose,          \* start's parameter
    next_card,        \* start's local variable next_card
    idx,              \* position of the for loop over self.players (1-based)
    ret,              \* the outcome of the last public call
    stdout,           \* the snapshot last printed by the last public call
    log,              \* history: every card returned by take_next_card and
                      \* every player.move call, in order
    registered,       \* history: <<index returned by add_player, player>>
    entry,            \* history: moves_played when start was last called
    first_entry,      \* history: moves_played when start was first called
    callback,         \* what the player.move call in progress read from the
                      \* game through its read-only operations, if anything
    last_scores       \* history: the list the last completed start returned

vars == <<available_cards, moves_played, players, SIZE, boards, pc, verbose,
          next_card, idx, ret, stdout, log, registered, entry, first_entry,
          callback, last_scores>>

(* ------------------------------ helpers -------------------------------- *)

Min(a, b) == IF a <= b THEN a ELSE b

RECURSIVE SumSeq(_)
SumSeq(s) == IF s = <<>> THEN 0 ELSE Head(s) + SumSeq(Tail(s))

\* The deck built from range(0, 13): 0,0,0,0,1,...,12
SortedDeck_from_zero == [j \in 1..(Ranks * Copies) |-> (j - 1) \div Copies]

\* [i for i in range(1, 14) for _ in range(4)]: 1,1,1,1,2,2,2,2,...,13
SortedDeck == [j \in 1..(Ranks * Copies) |-> ((j - 1) \div Copies) + 1]

\* The strides that permute the positions of the deck.
Units == {a \in 1..(Ranks * Copies - 1) :
            \A d \in 2..a : ~(a % d = 0 /\ (Ranks * Copies) % d = 0)}

\* The n-th smallest unit.
Stride(n) == CHOOSE a \in Units : Cardinality({b \in Units : b < a}) = n - 1

\* rnd.shuffle: one of NumShuffles permutations of the sorted deck.
Shuffled(n) ==
    [j \in 1..(Ranks * Copies) |->
        SortedDeck[((Stride(n) * (j - 1) + n) % (Ranks * Copies)) + 1]]

\* Python values returned by the public operations.
NoSnapshot == [moves |-> <<>>, current |-> <<>>, number |-> -1,
               players |-> <<>>, positions |-> {}]
Value(op, kind, int, list, str) ==
    [op |-> op, kind |-> kind, int |-> int, list |-> list, str |-> str]
PyNone(op) == Value(op, "None", 0, <<>>, NoSnapshot)
PyInt(op, n) == Value(op, "int", n, <<>>, NoSnapshot)
PyBool(op, b) == Value(op, IF b THEN "True" ELSE "False", 0, <<>>, NoSnapshot)
PyList(op, l) == Value(op, "list", 0, l, NoSnapshot)
PyStr(op, s) == Value(op, "str", 0, <<>>, s)
PyRaise(op, exc) == Value(op, exc, 0, <<>>, NoSnapshot)

\* No player.move call has read the game; no start call has returned.
NoCallback == [finished |-> "", text |-> NoSnapshot]
NoScores == <<-1>>

\* self.available_cards[i] for a 0-based index i >= 0
CardAt(i) == available_cards[i + 1]

(* ------------------------- collaborators ------------------------------- *)

\* Board.SIZE ** 2
Capacity == SIZE * SIZE

\* Player.move(card): the trivial player places the card in its next cell.
PlayerMove(board, card) == Append(board, card)

\* Player.get_board()
get_board(p) == boards[p]

\* evaluate(board): the sum of the placed values.
evaluate(board) == SumSeq(board)

(* ------------------------------ Game ----------------------------------- *)

\* finished with "and" in place of "or".
finished_and ==
    moves_played >= Capacity /\ moves_played >= Len(available_cards)

\* finished with ">" in place of ">=".
finished_strict ==
    moves_played > Capacity \/ moves_played > Len(available_cards)

\* Game.finished
finished ==
    moves_played >= Capacity \/ moves_played >= Len(available_cards)

\* take_next_card without the finished() check.
take_next_card_unguarded ==
    IF moves_played >= Len(available_cards)
    THEN [ret |-> PyRaise("take_next_card", "IndexError"),
          moves_played |-> moves_played]
    ELSE [ret |-> PyInt("take_next_card", CardAt(moves_played)),
          moves_played |-> moves_played + 1]

\* take_next_card reading the deck after the increment.
take_next_card_read_late ==
    IF finished
    THEN [ret |-> PyNone("take_next_card"), moves_played |-> moves_played]
    ELSE IF moves_played + 1 >= Len(available_cards)
    THEN [ret |-> PyRaise("take_next_card", "IndexError"),
          moves_played |-> moves_played + 1]
    ELSE [ret |-> PyInt("take_next_card", CardAt(moves_played + 1)),
          moves_played |-> moves_played + 1]

\* take_next_card rewinding the counter once the game is finished.
take_next_card_rewind ==
    IF finished
    THEN [ret |-> PyNone("take_next_card"), moves_played |-> 0]
    ELSE [ret |-> PyInt("take_next_card", CardAt(moves_played)),
          moves_played |-> moves_played + 1]

\* take_next_card with a guard of its own that stops one card early.
take_next_card_early_stop ==
    IF moves_played + 1 >= Capacity \/ moves_played >= Len(available_cards)
    THEN [ret |-> PyNone("take_next_card"), moves_played |-> moves_played]
    ELSE [ret |-> PyInt("take_next_card", CardAt(moves_played)),
          moves_played |-> moves_played + 1]

\* Game.take_next_card: the returned value and the counter after the call.
take_next_card ==
    IF finished
    THEN [ret |-> PyNone("take_next_card"), moves_played |-> moves_played]
    ELSE IF moves_played >= Len(available_cards)
    THEN [ret |-> PyRaise("take_next_card", "IndexError"),
          moves_played |-> moves_played]
    ELSE [ret |-> PyInt("take_next_card", CardAt(moves_played)),
          moves_played |-> moves_played + 1]

\* add_player refusing only once the game is finished.
add_player_until_finished(player) ==
    IF finished
    THEN [ret |-> PyRaise("add_player", "ValueError"), players |-> players]
    ELSE [ret |-> PyInt("add_player", Len(Append(players, player)) - 1),
          players |-> Append(players, player)]

\* add_player appending before the check.
add_player_append_first(player) ==
    IF moves_played # 0
    THEN [ret |-> PyRaise("add_player", "ValueError"),
          players |-> Append(players, player)]
    ELSE [ret |-> PyInt("add_player", Len(Append(players, player)) - 1),
          players |-> Append(players, player)]

\* add_player returning the length of the roster instead of the index.
add_player_returns_len(player) ==
    IF moves_played # 0
    THEN [ret |-> PyRaise("add_player", "ValueError"), players |-> players]
    ELSE [ret |-> PyInt("add_player", Len(Append(players, player))),
          players |-> Append(players, player)]

\* Game.add_player: the outcome and the roster after the call.
add_player(player) ==
    IF moves_played # 0
    THEN [ret |-> PyRaise("add_player", "ValueError"), players |-> players]
    ELSE [ret |-> PyInt("add_player", Len(Append(players, player)) - 1),
          players |-> Append(players, player)]

\* __str__ printing the whole deck as the moves played.
ShownPositions_whole_deck ==
    (0..(Len(available_cards) - 1))
        \cup (IF finished THEN {} ELSE {moves_played})

\* The 0-based deck positions whose values Game.__str__ puts in the text.
ShownPositions ==
    (0..(Min(moves_played, Len(available_cards)) - 1))
        \cup (IF finished THEN {} ELSE {moves_played})

\* Game.__str__: the fields of the text.
Game_str ==
    IF ~finished /\ moves_played >= Len(available_cards)
    THEN PyRaise("__str__", "IndexError")
    ELSE PyStr("__str__",
               [moves |-> SubSeq(available_cards, 1,
                                 Min(moves_played, Len(available_cards))),
                current |-> IF finished THEN <<>>
                            ELSE <<CardAt(moves_played)>>,
                number |-> moves_played,
                players |-> players,
                positions |-> ShownPositions])

\* The list start returns: [evaluate(player.get_board()) for player in players]
Scores == [i \in 1..Len(players) |-> evaluate(get_board(players[i]))]

DrawEvent(card) == [ev |-> "draw", who |-> "", card |-> card]
MoveEvent(p, card) == [ev |-> "move", who |-> p, card |-> card]

(* ----------------------------- actions --------------------------------- *)

Init ==
    /\ available_cards \in {Shuffled(n) : n \in 1..NumShuffles}
    /\ moves_played = 0
    /\ players = <<>>
    /\ SIZE \in BoardSides
    /\ boards = [p \in PlayerObjects |-> <<>>]
    /\ pc = "idle"
    /\ verbose = FALSE
    /\ next_card = 0
    /\ idx = 0
    /\ ret = PyNone("__init__")
    /\ stdout = NoSnapshot
    /\ log = <<>>
    /\ registered = {}
    /\ entry = -1
    /\ first_entry = -1
    /\ callback = NoCallback
    /\ last_scores = NoScores

\* game.add_player(p)
AddPlayer(p) ==
    /\ pc = "idle"
    /\ LET r == add_player(p) IN
        /\ Len(r.players) <= MaxPlayers
        /\ ret' = r.ret
        /\ players' = r.players
        /\ registered' = IF r.ret.kind = "int"
                         THEN registered \cup {<<r.ret.int, p>>}
                         ELSE registered
    /\ stdout' = NoSnapshot
    /\ UNCHANGED <<available_cards, moves_played, SIZE, boards, pc, verbose,
                   next_card, idx, log, entry, first_entry, callback,
                   last_scores>>

\* game.take_next_card()
TakeNextCard ==
    /\ pc = "idle"
    /\ LET r == take_next_card IN
        /\ ret' = r.ret
        /\ moves_played' = r.moves_played
        /\ log' = IF r.ret.kind = "int"
                  THEN Append(log, DrawEvent(r.ret.int)) ELSE log
    /\ stdout' = NoSnapshot
    /\ UNCHANGED <<available_cards, players, SIZE, boards, pc, verbose,
                   next_card, idx, registered, entry, first_entry, callback,
                   last_scores>>

\* game.finished()
Finished ==
    /\ pc = "idle"
    /\ ret' = PyBool("finished", finished)
    /\ stdout' = NoSnapshot
    /\ UNCHANGED <<available_cards, moves_played, players, SIZE, boards, pc,
                   verbose, next_card, idx, log, registered, entry,
                   first_entry, callback, last_scores>>

\* __str__ taking the next card to show it as the current card.
Str_takes_card ==
    /\ pc = "idle"
    /\ ret' = Game_str
    /\ moves_played' = take_next_card.moves_played
    /\ stdout' = NoSnapshot
    /\ UNCHANGED <<available_cards, players, SIZE, boards, pc,
                   verbose, next_card, idx, log, registered, entry,
                   first_entry, callback, last_scores>>

\* str(game)
Str ==
    /\ pc = "idle"
    /\ ret' = Game_str
    /\ stdout' = NoSnapshot
    /\ UNCHANGED <<available_cards, moves_played, players, SIZE, boards, pc,
                   verbose, next_card, idx, log, registered, entry,
                   first_entry, callback, last_scores>>

\* start rewinding the counter when it is called.
Start_rewinds(v) ==
    /\ pc = "idle"
    /\ pc' = "loop"
    /\ verbose' = v
    /\ entry' = moves_played
    /\ first_entry' = IF first_entry = -1 THEN moves_played ELSE first_entry
    /\ ret' = Value("start", "running", 0, <<>>, NoSnapshot)
    /\ stdout' = NoSnapshot
    /\ next_card' = 0
    /\ idx' = 0
    /\ moves_played' = 0
    /\ UNCHANGED <<available_cards, players, SIZE, boards, log,
                   registered, callback, last_scores>>

\* game.start(verbose=v): the call enters the while loop.
Start(v) ==
    /\ pc = "idle"
    /\ pc' = "loop"
    /\ verbose' = v
    /\ entry' = moves_played
    /\ first_entry' = IF first_entry = -1 THEN moves_played ELSE first_entry
    /\ ret' = Value("start", "running", 0, <<>>, NoSnapshot)
    /\ stdout' = NoSnapshot
    /\ next_card' = 0
    /\ idx' = 0
    /\ UNCHANGED <<available_cards, moves_played, players, SIZE, boards, log,
                   registered, callback, last_scores>>

\* The loop head with "if" in place of "while": one turn at most.
StartLoop_once ==
    /\ pc = "loop"
    /\ UNCHANGED <<available_cards, players, SIZE, boards, registered, entry,
                   first_entry>>
    /\ callback' = NoCallback
    /\ IF finished \/ next_card # 0
       THEN /\ ret' = PyList("start", Scores)
            /\ last_scores' = Scores
            /\ pc' = "idle"
            /\ verbose' = FALSE
            /\ next_card' = 0
            /\ idx' = 0
            /\ UNCHANGED <<moves_played, log, stdout>>
       ELSE LET r == take_next_card IN
            /\ moves_played' = r.moves_played
            /\ next_card' = r.ret.int
            /\ log' = Append(log, DrawEvent(r.ret.int))
            /\ stdout' = IF verbose THEN Game_str'.str ELSE stdout
            /\ idx' = IF players = <<>> THEN 0 ELSE 1
            /\ pc' = IF players = <<>> THEN "loop" ELSE "moves"
            /\ UNCHANGED <<ret, verbose, last_scores>>

\* One evaluation of the loop head: either the loop exits and start returns
\* the scores, or a card is taken, asserted, and the state is printed.
StartLoop ==
    /\ pc = "loop"
    /\ UNCHANGED <<available_cards, players, SIZE, boards, registered, entry,
                   first_entry>>
    /\ callback' = NoCallback
    /\ IF finished
       THEN /\ ret' = PyList("start", Scores)
            /\ last_scores' = Scores
            /\ pc' = "idle"
            /\ verbose' = FALSE
            /\ next_card' = 0
            /\ idx' = 0
            /\ UNCHANGED <<moves_played, log, stdout>>
       ELSE LET r == take_next_card IN
            IF r.ret.kind # "int"
            THEN /\ ret' = PyRaise("start",
                                   IF r.ret.kind = "None"
                                   THEN "AssertionError" ELSE r.ret.kind)
                 /\ pc' = "idle"
                 /\ verbose' = FALSE
                 /\ next_card' = 0
                 /\ idx' = 0
                 /\ moves_played' = r.moves_played
                 /\ UNCHANGED <<log, stdout, last_scores>>
            ELSE /\ moves_played' = r.moves_played
                 /\ next_card' = r.ret.int
                 /\ log' = Append(log, DrawEvent(r.ret.int))
                 /\ stdout' = IF verbose THEN Game_str'.str ELSE stdout
                 /\ idx' = IF players = <<>> THEN 0 ELSE 1
                 /\ pc' = IF players = <<>> THEN "loop" ELSE "moves"
                 /\ UNCHANGED <<ret, verbose, last_scores>>

\* The for loop leaving after its first player.
StartMove_first_only ==
    /\ pc = "moves"
    /\ LET p == players[idx] IN
        /\ boards' = [boards EXCEPT ![p] = PlayerMove(boards[p], next_card)]
        /\ log' = Append(log, MoveEvent(p, next_card))
    /\ idx' = 0
    /\ pc' = "loop"
    /\ callback' = NoCallback
    /\ UNCHANGED <<available_cards, moves_played, players, SIZE, verbose,
                   next_card, ret, stdout, registered, entry, first_entry,
                   last_scores>>

\* One iteration of "for player in self.players: player.move(next_card)".
StartMove ==
    /\ pc = "moves"
    /\ LET p == players[idx] IN
        /\ boards' = [boards EXCEPT ![p] = PlayerMove(boards[p], next_card)]
        /\ log' = Append(log, MoveEvent(p, next_card))
    /\ IF idx < Len(players)
       THEN idx' = idx + 1 /\ pc' = "moves"
       ELSE idx' = 0 /\ pc' = "loop"
    /\ callback' = NoCallback
    /\ UNCHANGED <<available_cards, moves_played, players, SIZE, verbose,
                   next_card, ret, stdout, registered, entry, first_entry,
                   last_scores>>

\* What a player.move call that calls game.finished() and str(game) reads.
Observed ==
    [finished |-> IF finished THEN "True" ELSE "False", text |-> Game_str.str]

\* One iteration of the for loop with a player whose move() calls the
\* read-only operations game.finished() and str(game) before placing the card.
StartMoveReading ==
    /\ pc = "moves"
    /\ callback' = Observed
    /\ LET p == players[idx] IN
        /\ boards' = [boards EXCEPT ![p] = PlayerMove(boards[p], next_card)]
        /\ log' = Append(log, MoveEvent(p, next_card))
    /\ IF idx < Len(players)
       THEN idx' = idx + 1 /\ pc' = "moves"
       ELSE idx' = 0 /\ pc' = "loop"
    /\ UNCHANGED <<available_cards, moves_played, players, SIZE, verbose,
                   next_card, ret, stdout, registered, entry, first_entry,
                   last_scores>>

Next ==
    \/ \E p \in PlayerObjects : AddPlayer(p)
    \/ TakeNextCard
    \/ Finished
    \/ Str
    \/ \E v \in BOOLEAN : Start(v)
    \/ StartLoop
    \/ StartMove

Spec == Init /\ [][Next]_vars

\* The loop of start runs on: the program is sequential, and every step of
\* the loop (the loop head, a player.move call) returns.
FairSpec == Spec /\ WF_vars(StartLoop) /\ WF_vars(StartMove)

\* The same program with players whose move() may read the game.
NextCallback ==
    \/ Next
    \/ StartMoveReading

CallbackSpec == Init /\ [][NextCallback]_vars

(* ---------------------- properties of the Game ------------------------- *)

\* min(board capacity, deck length)
Threshold == Min(Capacity, Len(available_cards))

\* Some take_next_card call has returned a real card.
Drew == \E k \in 1..Len(log) : log[k].ev = "draw"

\* start has just returned its list of scores.
StartReturned == ret.op = "start" /\ ret.kind = "list"

\* The cards player object p has been given through move(), in order.
RECURSIVE CardsOf(_)
CardsOf(l) == IF l = <<>> THEN <<>> ELSE <<Head(l).card>> \o CardsOf(Tail(l))
Received(p) ==
    CardsOf(SelectSeq(log, LAMBDA e : e.ev = "move" /\ e.who = p))

\* Number of roster entries that hold player object p.
Entries(p) == Cardinality({i \in 1..Len(players) : players[i] = p})

\* The deck values at 0-based positions k..Threshold-1, each m times in a row.
DeckRun(k, m) ==
    [j \in 1..((IF Threshold > k THEN Threshold - k ELSE 0) * m) |->
        CardAt(k + ((j - 1) \div m))]

\* The events of a start call entered with a counter of 0: turn after turn,
\* the draw of the card, then its delivery to the roster in order.
ExpectedLog ==
    [j \in 1..(Threshold * (Len(players) + 1)) |->
        LET turn == (j - 1) \div (Len(players) + 1)
            r == (j - 1) % (Len(players) + 1)
        IN  IF r = 0 THEN DrawEvent(CardAt(turn))
            ELSE MoveEvent(players[r], CardAt(turn))]

\* C1: registration freeze. An add_player call succeeds (returns an index)
\* if and only if the move counter is 0 and raises ValueError otherwise; once
\* any take_next_card call has returned a real card, add_player raises.
C1_RegistrationFreeze ==
    ret.op = "add_player" =>
        /\ ret.kind \in {"int", "ValueError"}
        /\ (ret.kind = "int") <=> (moves_played = 0)
        /\ Drew => ret.kind = "ValueError"

C1_Witness ==
    /\ ret.op = "add_player"
    /\ ret.kind = "ValueError"
    /\ Drew
    /\ players # <<>>

\* C2: a failed registration is atomic. A step in which add_player raises
\* ValueError leaves the roster, the move counter and the deck as they were.
C2_FailedRegistrationAtomic ==
    [][(pc = "idle" /\ ret'.op = "add_player" /\ ret'.kind = "ValueError")
        => /\ players' = players
           /\ moves_played' = moves_played
           /\ available_cards' = available_cards
           /\ moves_played # 0]_vars

C2_Witness ==
    /\ ret.op = "add_player"
    /\ ret.kind = "ValueError"
    /\ Len(players) = 1
    /\ moves_played > 1

\* C3: score alignment. When start returns, the list has one score per
\* roster entry, the indices returned by add_player are 0..N-1, and score i
\* is evaluate applied to the board of the player whose add_player call
\* returned i.
C3_ScoreAlignment ==
    StartReturned =>
        /\ Len(ret.list) = Len(players)
        /\ Cardinality(registered) = Len(players)
        /\ {r[1] : r \in registered} = 0..(Len(players) - 1)
        /\ \A r \in registered :
              /\ r[1] + 1 \in 1..Len(ret.list)
              /\ ret.list[r[1] + 1] = evaluate(get_board(r[2]))
              /\ players[r[1] + 1] = r[2]

C3_Witness ==
    /\ StartReturned
    /\ Len(ret.list) = 2
    /\ players[1] # players[2]
    /\ ret.list[1] > 0

C3_WitnessNoPlayers ==
    StartReturned /\ players = <<>> /\ ret.list = <<>> /\ moves_played > 0

\* C4 as claimed: when start returns, every registered player has received
\* exactly the deck values at positions 0..Threshold-1, each once, in deck
\* order, whatever public operations preceded the call.
C4_Original ==
    StartReturned =>
        \A i \in 1..Len(players) : Received(players[i]) = DeckRun(0, 1)

\* C4 as amended: when start returns, every registered player object has
\* received exactly the deck values at positions k..Threshold-1 in deck
\* order, where k is the move counter at the first start call (cards drawn
\* by earlier direct take_next_card calls are not delivered), and each of
\* them once per roster entry that holds the object.
C4_SameCardsFromEntry ==
    StartReturned =>
        \A p \in PlayerObjects :
            Received(p) = DeckRun(first_entry, Entries(p))

C4_Witness ==
    /\ StartReturned
    /\ first_entry > 0
    /\ first_entry < Threshold
    /\ Len(players) = 2
    /\ players[1] # players[2]

C4_WitnessTwice ==
    /\ StartReturned
    /\ first_entry = 0
    /\ Threshold > 1
    /\ Len(players) = 2
    /\ players[1] = players[2]

\* C5: a start call on a game on which only add_player was called (the
\* counter is 0 on entry) draws exactly min(capacity, deck length) cards, and
\* turn after turn the drawn card is delivered to every roster entry in
\* registration order before the next card is drawn.
C5_TurnOrder ==
    first_entry = 0 =>
        /\ Len(log) <= Len(ExpectedLog)
        /\ log = SubSeq(ExpectedLog, 1, Len(log))
        /\ StartReturned =>
              /\ log = ExpectedLog
              /\ moves_played = Threshold
              /\ Cardinality({k \in 1..Len(log) : log[k].ev = "draw"})
                    = Min(Capacity, Len(available_cards))

C5_Witness ==
    /\ StartReturned
    /\ first_entry = 0
    /\ SIZE = 5
    /\ Cardinality({k \in 1..Len(log) : log[k].ev = "draw"}) = 25
    /\ Len(players) = 2
    /\ players[1] # players[2]

\* C6: exhaustion. finished() is true exactly when the move counter is at
\* least min(capacity, deck length), a finished() call returns that value,
\* and finished turns from false to true only in a step that draws the card
\* making the counter equal to that minimum.
C6_Exhaustion ==
    /\ [](finished <=> moves_played >= Threshold)
    /\ [](ret.op = "finished"
            => /\ ret.kind \in {"True", "False"}
               /\ (ret.kind = "True") <=> (moves_played >= Threshold))
    /\ [][(~finished /\ finished')
            => /\ moves_played' = moves_played + 1
               /\ moves_played' = Threshold']_vars

C6_Witness ==
    /\ ret.op = "finished"
    /\ ret.kind = "True"
    /\ Capacity > Len(available_cards)
    /\ moves_played = Len(available_cards)

C6_WitnessBoardFull ==
    /\ ret.op = "finished"
    /\ ret.kind = "True"
    /\ SIZE = 5
    /\ moves_played = 25

\* C7: idempotence of the finished state. A take_next_card call made while
\* finished() is true returns None and leaves the move counter, the deck and
\* the roster unchanged; None is returned only then.
C7_FinishedIdempotent ==
    /\ [][(pc = "idle" /\ ret'.op = "take_next_card" /\ finished)
            => /\ ret'.kind = "None"
               /\ moves_played' = moves_played
               /\ available_cards' = available_cards
               /\ players' = players]_vars
    /\ []((ret.op = "take_next_card" /\ ret.kind = "None") => finished)

C7_Witness ==
    /\ ret.op = "take_next_card"
    /\ ret.kind = "None"
    /\ moves_played > 0
    /\ moves_played < Len(available_cards)

\* C8: monotonic counter. The move counter starts at 0 and never decreases;
\* a take_next_card call made while not finished returns the deck value at
\* the counter's position before the call and adds exactly 1 to the counter,
\* a call that returns None adds 0, and nothing else changes the counter.
C8_MonotonicCounter ==
    /\ moves_played = 0
    /\ [][/\ moves_played' >= moves_played
          /\ (pc = "idle" /\ ret'.op = "take_next_card")
                => IF finished
                   THEN ret'.kind = "None" /\ moves_played' = moves_played
                   ELSE /\ ret'.kind = "int"
                        /\ ret'.int = available_cards[moves_played + 1]
                        /\ moves_played' = moves_played + 1
          /\ moves_played' # moves_played
                => /\ moves_played' = moves_played + 1
                   /\ log' = Append(log,
                                DrawEvent(available_cards[moves_played + 1]))
         ]_vars

C8_Witness ==
    /\ ret.op = "take_next_card"
    /\ ret.kind = "int"
    /\ moves_played = 3
    /\ ret.int = available_cards[3]

\* The snapshots the last operation produced: the value of str(game) and the
\* text printed by start(verbose=True).
Snapshots ==
    (IF ret.kind = "str" THEN {ret.str} ELSE {})
        \cup (IF stdout # NoSnapshot THEN {stdout} ELSE {})

\* C9 as claimed: every card value a snapshot shows comes from a deck
\* position strictly below the number of cards drawn so far, the current
\* card being the most recently drawn one.
C9_Original ==
    \A s \in Snapshots :
        /\ \A pos \in s.positions : pos < s.number
        /\ s.current # <<>> =>
              s.number > 0 /\ s.current = <<CardAt(s.number - 1)>>

\* C9 as amended: every card value a snapshot shows comes from a deck
\* position at or below the number of cards drawn so far. The moves played
\* are the positions strictly below it; the current card, shown whenever the
\* game is not finished, is the value at the position equal to it, that is
\* the next card, which has not been drawn yet. No later position is shown.
C9_AtMostNextCard ==
    \A s \in Snapshots :
        /\ s.number = moves_played
        /\ \A pos \in s.positions : pos <= s.number
        /\ s.moves = SubSeq(available_cards, 1, s.number)
        /\ s.current = IF s.number >= Threshold THEN <<>>
                       ELSE <<CardAt(s.number)>>
        /\ s.positions = (0..(s.number - 1))
                            \cup (IF s.current = <<>> THEN {} ELSE {s.number})

C9_Witness ==
    /\ pc = "moves"
    /\ stdout # NoSnapshot
    /\ stdout.current # <<>>
    /\ stdout.number = 2
    /\ stdout.current # <<next_card>>

\* C10: finished is terminal. Once finished() is true it stays true through
\* every later add_player, take_next_card, finished, __str__ and start step.
C10_FinishedTerminal ==
    [][finished => (finished' /\ moves_played' = moves_played /\ SIZE' = SIZE
                    /\ Len(available_cards') = Len(available_cards))]_vars

C10_Witness ==
    /\ StartReturned
    /\ finished
    /\ entry = Threshold
    /\ Threshold > 0
    /\ players # <<>>

\* Number of cards take_next_card has returned so far.
Draws == Cardinality({k \in 1..Len(log) : log[k].ev = "draw"})

\* C11: termination of start. From every state in which start is called,
\* with any roster, the call returns its list of scores; on return
\* finished() is true and the call has performed exactly
\* max(0, min(capacity, deck length) - counter at entry) draws.
C11_StartTerminates ==
    /\ [](pc # "idle" => <>(pc = "idle"))
    /\ [](ret.op = "start" /\ pc = "idle"
            => /\ ret.kind = "list"
               /\ finished
               /\ Draws - entry
                    = IF Threshold > entry THEN Threshold - entry ELSE 0)

C11_Witness ==
    /\ StartReturned
    /\ players = <<>>
    /\ entry = 3
    /\ Draws = 25
    /\ finished

C11_WitnessNoDraw ==
    /\ StartReturned
    /\ entry = Threshold
    /\ Draws = entry
    /\ Len(players) = 2

\* The cards of the draw events of a log, in order.
DrawnCards(l) == CardsOf(SelectSeq(l, LAMBDA e : e.ev = "draw"))

\* The cards start delivered to the players in the turns before the current
\* one: the cards it drew itself, the last one excepted.
EarlierTurnCards ==
    LET d == DrawnCards(log)
    IN  SubSeq(d, first_entry + 1, Len(d) - 1)

\* The trace of the current turn has just been printed.
TurnPrinted == pc = "moves" /\ idx = 1 /\ verbose /\ stdout # NoSnapshot

\* C12 as claimed: the snapshot printed for a turn lists as moves played
\* exactly the cards delivered to the players in earlier turns, shows as
\* current card the card delivered in that turn, and as move number the
\* count of cards played before it.
C12_TraceShowsTurn ==
    TurnPrinted =>
        /\ stdout.current = <<next_card>>
        /\ stdout.moves = EarlierTurnCards
        /\ stdout.number = moves_played - 1

\* What the code prints: the card of the turn is the last of the moves
\* played, the current card is the one after it, the number counts it.
C12_Printed ==
    TurnPrinted =>
        /\ stdout.moves = SubSeq(available_cards, 1, moves_played)
        /\ stdout.moves[Len(stdout.moves)] = next_card
        /\ stdout.number = moves_played
        /\ stdout.current = IF finished THEN <<>> ELSE <<CardAt(moves_played)>>

\* C13: counter bound. In every state 0 <= counter <= deck length, and
\* counter <= min(capacity, deck length).
C13_CounterBound ==
    /\ moves_played \in Nat
    /\ moves_played <= Len(available_cards)
    /\ moves_played <= Min(Capacity, Len(available_cards))

C13_Witness ==
    /\ moves_played = Len(available_cards)
    /\ Capacity > Len(available_cards)
    /\ ret.op = "take_next_card"
    /\ ret.kind = "None"

\* C14: totality. finished(), take_next_card(), __str__() and start() never
\* raise, and every deck index they read is below the deck length, also when
\* the deck is shorter than the board capacity.
C14_Totality ==
    /\ ret.kind \in {"None", "int", "True", "False", "list", "str",
                     "running", "ValueError"}
    /\ ret.kind = "ValueError" => ret.op = "add_player"
    /\ ~finished => moves_played < Len(available_cards)
    /\ take_next_card.ret.kind \in {"None", "int"}
    /\ Game_str.kind = "str"
    /\ \A pos \in ShownPositions : pos \in 0..(Len(available_cards) - 1)
    /\ \A s \in Snapshots : s.positions \subseteq 0..(Len(available_cards) - 1)

C14_Witness ==
    /\ Capacity > Len(available_cards)
    /\ moves_played = Len(available_cards) - 1
    /\ ret.kind = "str"
    /\ ret.str.current # <<>>

\* C15: deck immutability. The deck built at construction holds each value
\* 1..13 exactly 4 times (52 cards) and no step changes the deck sequence.
C15_DeckImmutable ==
    /\ Len(available_cards) = 52
    /\ \A v \in 1..13 :
          Cardinality({j \in 1..Len(available_cards) :
                          available_cards[j] = v}) = 4
    /\ [][available_cards' = available_cards]_vars

C15_Witness ==
    /\ StartReturned
    /\ moves_played = 25
    /\ available_cards # SortedDeck
    /\ Len(players) = 2

\* C16: frame. Only take_next_card changes the move counter (called
\* directly, or by the loop head of start, one card at a time); add_player,
\* successful or not, finished() and __str__() leave it unchanged; only a
\* successful add_player changes the roster.
C16_Frame ==
    [][/\ moves_played' # moves_played
            => /\ \/ pc = "idle" /\ ret'.op = "take_next_card"
                  \/ pc = "loop" /\ pc' # "idle"
               /\ log' = Append(log, DrawEvent(CardAt(moves_played)))
       /\ (pc = "idle" /\ ret'.op \in {"add_player", "finished", "__str__"})
            => moves_played' = moves_played
       /\ players' # players
            => /\ pc = "idle"
               /\ ret'.op = "add_player"
               /\ ret'.kind = "int"
               /\ players' = Append(players, players'[Len(players')])
      ]_vars

C16_Witness ==
    /\ ret.op = "__str__"
    /\ moves_played = 2
    /\ Len(players) = 1
    /\ first_entry = -1

\* The lifecycle states of section 4.2.
NOT_STARTED == moves_played = 0
IN_PROGRESS == 0 < moves_played /\ moves_played < Threshold
FINISHED == moves_played >= Threshold
Phase == IF NOT_STARTED THEN 0 ELSE IF IN_PROGRESS THEN 1 ELSE 2

\* C17: lifecycle. With a capacity of at least 1 and a non-empty deck every
\* state is in exactly one of NOT_STARTED, IN_PROGRESS and FINISHED, FINISHED
\* is where finished() is true, the roster changes only in NOT_STARTED, and
\* the states are visited in this order only.
C17_Lifecycle ==
    /\ []((Capacity >= 1 /\ Len(available_cards) >= 1)
            => /\ Cardinality({x \in {"n", "i", "f"} :
                    \/ x = "n" /\ NOT_STARTED
                    \/ x = "i" /\ IN_PROGRESS
                    \/ x = "f" /\ FINISHED}) = 1
               /\ FINISHED <=> finished)
    /\ [][(Capacity >= 1 /\ Len(available_cards) >= 1)
            => /\ players' # players => (NOT_STARTED /\ NOT_STARTED')
               /\ Phase' >= Phase]_vars

C17_Witness ==
    /\ IN_PROGRESS
    /\ ret.op = "add_player"
    /\ ret.kind = "ValueError"
    /\ Len(players) = 2

\* C18: the assertion of start holds. Whenever the loop head finds
\* finished() false, the take_next_card call that follows returns a card,
\* never None, so start never raises AssertionError; this also holds when
\* the player.move calls read the game through finished() and __str__().
C18_AssertionHolds ==
    /\ ret.kind # "AssertionError"
    /\ (pc = "loop" /\ ~finished) => take_next_card.ret.kind = "int"
    /\ callback # NoCallback
          => /\ callback.text.number = moves_played
             /\ callback.finished = IF finished THEN "True" ELSE "False"

C18_Witness ==
    /\ pc = "loop"
    /\ callback # NoCallback
    /\ callback.finished = "False"
    /\ moves_played = 2
    /\ Len(players) = 2

\* C19 as claimed: a start call on an already finished game draws no card,
\* calls no move(), leaves the counter and the roster unchanged and returns
\* the same list of scores as the previous start call.
C19_Original ==
    [][(pc # "idle" /\ entry >= Threshold)
        => /\ log' = log
           /\ moves_played' = moves_played
           /\ players' = players
           /\ boards' = boards
           /\ pc' = "idle"
           /\ ret'.kind = "list"
           /\ last_scores # NoScores => ret'.list = last_scores]_vars

\* C19 as amended: a start call on an already finished game draws no card,
\* calls no move(), and leaves the counter and the roster unchanged; when
\* the board capacity is at least 1 it returns the same list of scores as
\* the previous start call. (With a capacity of 0 the game is finished while
\* the counter is 0, so add_player can still lengthen the roster between
\* two start calls.)
C19_RerunNoOp ==
    [][/\ (pc = "idle" /\ pc' # "idle" /\ finished)
            => /\ log' = log
               /\ moves_played' = moves_played
               /\ players' = players
               /\ boards' = boards
       /\ (pc # "idle" /\ entry >= Threshold)
            => /\ log' = log
               /\ moves_played' = moves_played
               /\ players' = players
               /\ boards' = boards
               /\ pc' = "idle"
               /\ ret'.kind = "list"
               /\ (last_scores # NoScores /\ Capacity >= 1)
                     => ret'.list = last_scores
      ]_vars

C19_Witness ==
    /\ StartReturned
    /\ entry = Threshold
    /\ first_entry = 0
    /\ Threshold = 25
    /\ Len(players) = 2
    /\ players[1] = players[2]
    /\ ret.list = last_scores
    /\ ret.list[1] > 0

====
